---- MODULE Spec2Model ----
\* Contact-form submission pipeline of assets/js/contact-form.js:
\* CSRF token issuance, field validation, honeypot detection, client-side
\* rate limiting and the submit handler with its awaited transport call.
\*
\* Strings are sequences of one-character strings, so that trimming, length
\* checks and the regular expressions are computed as the code computes them.
EXTENDS Integers, Sequences, FiniteSets, TLC

VARIABLES
  now,          \* Date.now(): the wall clock, in epoch milliseconds
  submissions,  \* localStorage 'form_submissions' (JSON array of timestamps)
  sessionToken, \* sessionStorage 'csrf_token'
  tokenField,   \* value of the form's hidden csrf_token field
  values,       \* values of the name, email and message fields
  privacy,      \* privacy checkbox: checked?
  website,      \* value of the honeypot field 'website'
  fieldUI,      \* per field: classList and the invalid-feedback sibling
  notice,       \* the #form-message element
  hideTimers,   \* deadlines of the pending success auto-hide timeouts
  btn,          \* the submit button: disabled, btn-loading class, textContent
  inflight,     \* the formData of the awaited transport call, or NoPayload
  phase,        \* position of the last attempt in the submission state machine
  failure,      \* why the last attempt ended Failed
  event,        \* the handler that ran last
  call,         \* the last call of a function taken on its own
  components,   \* the components module: its three loaders, siteContent and
                \* the contentLoaded events dispatched on the document
  peer          \* the form of another tab on the same localStorage: the
                \* transport call its handleSubmit awaits, or NoPayload

vars == <<now, submissions, sessionToken, tokenField, values, privacy, website,
          fieldUI, notice, hideTimers, btn, inflight, phase, failure, event,
          call, components, peer>>

-----------------------------------------------------------------------------
\* Bounds of the model

\* The clock runs over MaxHours + 1 hours.
MaxHours == 1

\* Instants inside each hour that the clock visits.
Offsets == {0, 1499, 1500, 3000, 4500}

-----------------------------------------------------------------------------
\* Program constants

oneHour == 60 * 60 * 1000

RateLimitMax == 3

StoreCap == 10

MsPerMinute == 60000

TransportDelay == 1500

SuccessHideDelay == 5000

NameMinLen == 2

NameMaxLen == 100

MessageMinLen == 10

MessageMaxLen == 2000

Fields == {"name", "email", "message"}

Letters ==
  {"a","b","c","d","e","f","g","h","i","j","k","l","m",
   "n","o","p","q","r","s","t","u","v","w","x","y","z",
   "A","B","C","D","E","F","G","H","I","J","K","L","M",
   "N","O","P","Q","R","S","T","U","V","W","X","Y","Z"}

\* \s of the regular expressions and the characters String.trim() strips
IsSpace(c) == c \in {" ", "\t", "\n", "\r"}

NameErrLength == "Name must be between 2 and 100 characters"

NameErrChars == "Name can only contain letters, spaces, hyphens, and apostrophes"

EmailErr == "Please enter a valid email address"

MessageErr == "Message must be between 10 and 2000 characters"

PrivacyMsg == "Please accept the privacy policy to continue."

HoneypotMsg == "Invalid submission detected."

CorrectErrorsMsg == "Please correct the errors in the form."

RateLimitMsg == "Rate limit exceeded. Please try again in N minute(s)."

SuccessMsg == "Thank you for your message! I will get back to you soon."

TransportErrMsg == "An error occurred while sending your message. Please try again later."

SendingText == "Sending..."

\* The button's label in the page markup.
ButtonLabel == "Send Message"

NoPayload == [sent |-> FALSE]

\* No function is being followed on its own.
NoCall == [fn |-> "none"]

\* The components module is not being followed.
NoComponents == [init |-> "none"]

NoToken == "none"

\* sessionStorage holding the empty string under csrf_token
EmptyToken == ""

\* The values crypto.getRandomValues may produce (two stand for the 2^256).
Tokens == {"tokenA", "tokenB"}

-----------------------------------------------------------------------------
\* Pure helpers

RECURSIVE TrimStart(_)
TrimStart(s) ==
  IF s = <<>> THEN s
  ELSE IF IsSpace(Head(s)) THEN TrimStart(Tail(s)) ELSE s

RECURSIVE TrimEnd(_)
TrimEnd(s) ==
  IF s = <<>> THEN s
  ELSE IF IsSpace(s[Len(s)]) THEN TrimEnd(SubSeq(s, 1, Len(s) - 1)) ELSE s

\* String.prototype.trim
Trim(s) == TrimEnd(TrimStart(s))

\* /^[a-zA-Z\s'-]+$/
NameRegex(s) ==
  /\ Len(s) >= 1
  /\ \A i \in 1..Len(s) : s[i] \in Letters \/ IsSpace(s[i]) \/ s[i] \in {"'", "-"}

\* /^[^\s@]+@[^\s@]+\.[^\s@]+$/
EmailRegex(s) ==
  \E i \in 2..Len(s) :
    /\ s[i] = "@"
    /\ \A k \in 1..Len(s) : k # i => (~IsSpace(s[k]) /\ s[k] # "@")
    /\ \E j \in (i + 2)..(Len(s) - 1) : s[j] = "."

\* Math.ceil(x / m)
CeilDiv(x, m) == -((-x) \div m)

\* Math.min(...seq)
SeqMin(seq) == CHOOSE x \in {seq[i] : i \in DOMAIN seq} :
                 \A j \in DOMAIN seq : x <= seq[j]

Min2(a, b) == IF a <= b THEN a ELSE b

-----------------------------------------------------------------------------
\* Live-input sanitizer

UpperCase == <<"A","B","C","D","E","F","G","H","I","J","K","L","M",
               "N","O","P","Q","R","S","T","U","V","W","X","Y","Z">>

LowerCase == <<"a","b","c","d","e","f","g","h","i","j","k","l","m",
               "n","o","p","q","r","s","t","u","v","w","x","y","z">>

Digits == {"0","1","2","3","4","5","6","7","8","9"}

\* Case folding of the i flag
Lower(c) ==
  IF \E k \in 1..26 : UpperCase[k] = c
    THEN LowerCase[CHOOSE k \in 1..26 : UpperCase[k] = c]
    ELSE c

\* \w
IsWord(c) == c \in Letters \/ c \in Digits \/ c = "_"

\* The characters . does not match
IsLineTerminator(c) == c \in {"\n", "\r"}

\* The literal lit (in lower case) matches s at position i, ignoring case.
LiteralAt(s, i, lit) ==
  /\ i >= 1
  /\ i + Len(lit) - 1 <= Len(s)
  /\ \A k \in 1..Len(lit) : Lower(s[i + k - 1]) = lit[k]

\* The least position of the set S, or 0 when S is empty
Least(S) == IF S = {} THEN 0 ELSE CHOOSE k \in S : \A j \in S : k <= j

\* The position of the last character of the match of
\* /<tag[^>]*>.*?<\/tag>/i that starts at i, or 0; open is "<tag" and
\* close is "</tag>".
TagBlockEnd(s, i, open, close) ==
  IF ~LiteralAt(s, i, open) THEN 0
  ELSE LET gt == Least({k \in (i + Len(open))..Len(s) : s[k] = ">"}) IN
       IF gt = 0 THEN 0
       ELSE LET c == Least({k \in (gt + 1)..Len(s) : LiteralAt(s, k, close)}) IN
            IF c = 0 THEN 0
            ELSE IF \E k \in (gt + 1)..(c - 1) : IsLineTerminator(s[k]) THEN 0
            ELSE c + Len(close) - 1

ScriptOpen == <<"<","s","c","r","i","p","t">>

ScriptClose == <<"<","/","s","c","r","i","p","t",">">>

IframeOpen == <<"<","i","f","r","a","m","e">>

IframeClose == <<"<","/","i","f","r","a","m","e",">">>

JavascriptScheme == <<"j","a","v","a","s","c","r","i","p","t",":">>

\* /<script[^>]*>.*?<\/script>/i at i
ScriptEnd(s, i) == TagBlockEnd(s, i, ScriptOpen, ScriptClose)

\* /<iframe[^>]*>.*?<\/iframe>/i at i
IframeEnd(s, i) == TagBlockEnd(s, i, IframeOpen, IframeClose)

\* /javascript:/i at i
JavascriptEnd(s, i) ==
  IF LiteralAt(s, i, JavascriptScheme) THEN i + Len(JavascriptScheme) - 1 ELSE 0

\* /on\w+\s*=/i at i: the word run and the space run are taken greedily, and
\* no shorter run can be followed by the rest of the pattern.
HandlerEnd(s, i) ==
  IF ~LiteralAt(s, i, <<"o", "n">>) THEN 0
  ELSE LET w == Least({k \in (i + 2)..Len(s) : ~IsWord(s[k])})
           sp == IF w = 0 THEN 0 ELSE Least({k \in w..Len(s) : ~IsSpace(s[k])})
       IN IF w = 0 \/ w = i + 2 \/ sp = 0 THEN 0
          ELSE IF s[sp] = "=" THEN sp ELSE 0

\* The end of the match of one of the four patterns at i, or 0
MatchEnd(s, i, pattern) ==
  CASE pattern = "script" -> ScriptEnd(s, i)
    [] pattern = "iframe" -> IframeEnd(s, i)
    [] pattern = "javascript" -> JavascriptEnd(s, i)
    [] pattern = "handler" -> HandlerEnd(s, i)

\* value.replace(/pattern/g, ''): the matches are found from left to right,
\* the search resuming after each match.
RECURSIVE RemoveAll(_, _, _)
RemoveAll(s, i, pattern) ==
  IF i > Len(s) THEN <<>>
  ELSE LET e == MatchEnd(s, i, pattern) IN
       IF e = 0 THEN <<s[i]>> \o RemoveAll(s, i + 1, pattern)
       ELSE RemoveAll(s, e + 1, pattern)

\* sanitizeInput: the field's value afterwards
SanitizeInput(value) ==
  LET v1 == RemoveAll(value, 1, "script")
      v2 == RemoveAll(v1, 1, "iframe")
      v3 == RemoveAll(v2, 1, "javascript")
  IN RemoveAll(v3, 1, "handler")

-----------------------------------------------------------------------------
\* Token issuer

\* initCSRFToken: the stored token when there is one, else a generated one
\* (fresh is the value generateCSRFToken draws).
InitCSRFTokenAlwaysFresh(stored, fresh) == fresh

InitCSRFToken(stored, fresh) ==
  IF stored \in {NoToken, EmptyToken} THEN fresh ELSE stored

\* initCSRFToken leaving the hidden field as it finds it
TokenFieldValueUnwritten(field, token) == field

\* initCSRFToken: the value of the hidden csrf_token field afterwards, field
\* being its value before and token the token returned
TokenFieldValue(field, token) == token

-----------------------------------------------------------------------------
\* Field validator

\* The switch of validateField: the rule of each field on the trimmed value.
ValidationRule(fieldName, raw) ==
  LET value == Trim(raw) IN
  CASE fieldName = "name" ->
         IF Len(value) < NameMinLen \/ Len(value) > NameMaxLen
           THEN [isValid |-> FALSE, errorMessage |-> NameErrLength]
         ELSE IF ~NameRegex(value)
           THEN [isValid |-> FALSE, errorMessage |-> NameErrChars]
         ELSE [isValid |-> TRUE, errorMessage |-> ""]
    [] fieldName = "email" ->
         IF ~EmailRegex(value)
           THEN [isValid |-> FALSE, errorMessage |-> EmailErr]
         ELSE [isValid |-> TRUE, errorMessage |-> ""]
    [] fieldName = "message" ->
         IF Len(value) < MessageMinLen \/ Len(value) > MessageMaxLen
           THEN [isValid |-> FALSE, errorMessage |-> MessageErr]
         ELSE [isValid |-> TRUE, errorMessage |-> ""]
    [] OTHER -> [isValid |-> TRUE, errorMessage |-> ""]

\* "Update field state" adding the mark of the result and removing none
UpdateFieldStateWithoutRemove(ui, r) ==
  IF r.isValid
    THEN [classes |-> ui.classes \cup {"is-valid"},
          feedbackText |-> ui.feedbackText,
          feedbackShown |-> FALSE]
    ELSE [classes |-> ui.classes \cup {"is-invalid"},
          feedbackText |-> r.errorMessage,
          feedbackShown |-> TRUE]

\* "Update field state" of validateField: the field's classes and its
\* invalid-feedback sibling after a validation with result r.
UpdateFieldState(ui, r) ==
  IF r.isValid
    THEN [classes |-> (ui.classes \ {"is-invalid"}) \cup {"is-valid"},
          feedbackText |-> ui.feedbackText,
          feedbackShown |-> FALSE]
    ELSE [classes |-> (ui.classes \ {"is-valid"}) \cup {"is-invalid"},
          feedbackText |-> r.errorMessage,
          feedbackShown |-> TRUE]

\* validateField(field): the returned flag
IsFieldValid(f) == ValidationRule(f, values[f]).isValid

\* validateField(field): the field's state afterwards
ValidatedUI(f) == UpdateFieldState(fieldUI[f], ValidationRule(f, values[f]))

-----------------------------------------------------------------------------
\* Rate limiter

\* The filter of checkRateLimit: the stored timestamps counted at time t.
RecentSubmissions(subs, t) == SelectSeq(subs, LAMBDA ts : t - ts < oneHour)

\* checkRateLimit with the threshold compared by > instead of >=
CheckRateLimitOffByOne(subs, t) ==
  LET recentSubmissions == SelectSeq(subs, LAMBDA ts : t - ts < oneHour) IN
  IF Len(recentSubmissions) > RateLimitMax
    THEN [allowed |-> FALSE,
          minutes |-> CeilDiv(SeqMin(recentSubmissions) + oneHour - t, MsPerMinute)]
    ELSE [allowed |-> TRUE, minutes |-> 0]

\* checkRateLimit with the minutes rounded down instead of up
CheckRateLimitFloor(subs, t) ==
  LET recentSubmissions == SelectSeq(subs, LAMBDA ts : t - ts < oneHour) IN
  IF Len(recentSubmissions) >= RateLimitMax
    THEN [allowed |-> FALSE,
          minutes |-> (SeqMin(recentSubmissions) + oneHour - t) \div MsPerMinute]
    ELSE [allowed |-> TRUE, minutes |-> 0]

\* checkRateLimit with the window compared by <= instead of <
CheckRateLimitClosedWindow(subs, t) ==
  LET recentSubmissions == SelectSeq(subs, LAMBDA ts : t - ts <= oneHour) IN
  IF Len(recentSubmissions) >= RateLimitMax
    THEN [allowed |-> FALSE,
          minutes |-> CeilDiv(SeqMin(recentSubmissions) + oneHour - t, MsPerMinute)]
    ELSE [allowed |-> TRUE, minutes |-> 0]

\* checkRateLimit at time t on the stored sequence subs; minutes is the
\* minutesLeft put in the message.
CheckRateLimit(subs, t) ==
  LET recentSubmissions == RecentSubmissions(subs, t) IN
  IF Len(recentSubmissions) >= RateLimitMax
    THEN LET oldestSubmission == SeqMin(recentSubmissions)
             timeUntilNext == oldestSubmission + oneHour - t
         IN [allowed |-> FALSE, minutes |-> CeilDiv(timeUntilNext, MsPerMinute)]
    ELSE [allowed |-> TRUE, minutes |-> 0]

\* recordSubmission adding the timestamp at the front (unshift) and dropping
\* the last entry of a store over the cap
RecordSubmissionUnshift(subs, t) ==
  LET added == <<t>> \o subs IN
  IF Len(added) > StoreCap THEN SubSeq(added, 1, StoreCap) ELSE added

\* recordSubmission without the shift
RecordSubmissionNoShift(subs, t) == Append(subs, t)

\* recordSubmission dropping the newest stored entry (pop) instead of the oldest
RecordSubmissionPop(subs, t) ==
  IF Len(subs) + 1 > StoreCap
    THEN Append(SubSeq(subs, 1, Len(subs) - 1), t)
    ELSE Append(subs, t)

\* recordSubmission at time t: push, then one shift when longer than the cap.
RecordSubmission(subs, t) ==
  LET pushed == Append(subs, t) IN
  IF Len(pushed) > StoreCap THEN Tail(pushed) ELSE pushed

-----------------------------------------------------------------------------
\* Notices

HiddenNotice == [type |-> "none", text |-> "", minutes |-> 0, shown |-> FALSE]

\* showMessage: the #form-message element afterwards
ShowMessage(type, text, minutes) ==
  [type |-> type, text |-> text, minutes |-> minutes, shown |-> TRUE]

\* showMessage scheduling the auto-hide for a notice of any type
ShowMessageTimersAnyType(timers, type, t) == timers \cup {t + SuccessHideDelay}

\* showMessage: the pending auto-hide timeouts afterwards, called at time t
ShowMessageTimers(timers, type, t) ==
  IF type = "success" THEN timers \cup {t + SuccessHideDelay} ELSE timers

-----------------------------------------------------------------------------
\* Initial state: the page has loaded and initContactForm has run.

EmptyFieldUI == [classes |-> {}, feedbackText |-> "", feedbackShown |-> FALSE]

IdleButton == [disabled |-> FALSE, loading |-> FALSE, text |-> ButtonLabel]

InitForm ==
  /\ \E stored \in Tokens \cup {NoToken, EmptyToken}, fresh \in Tokens :
       /\ sessionToken = InitCSRFToken(stored, fresh)
       /\ tokenField = TokenFieldValue(EmptyToken, InitCSRFToken(stored, fresh))
  /\ values = [f \in Fields |-> <<>>]
  /\ privacy = FALSE
  /\ website = <<>>
  /\ fieldUI = [f \in Fields |-> EmptyFieldUI]
  /\ notice = HiddenNotice
  /\ hideTimers = {}
  /\ btn = IdleButton
  /\ inflight = NoPayload
  /\ phase = "Idle"
  /\ failure = "None"
  /\ event = "init"

Init ==
  /\ now = 0
  /\ submissions = <<>>
  /\ InitForm
  /\ call = NoCall
  /\ components = NoComponents
  /\ peer = NoPayload

-----------------------------------------------------------------------------
\* Inputs: what is entered in the fields

ValidName == <<"A", "l">>

ShortName == <<"J">>

ValidEmail == <<"a", "@", "b", ".", "c">>

ValidMessage == <<"H", "e", "l", "l", "o", " ", "t", "e", "s", "t">>

ShortMessage == <<"s", "h", "o", "r", "t">>

SpamUrl == <<"x">>

NameInputs == {ValidName, ShortName}

EmailInputs == {ValidEmail}

\* A message cut short by the sanitizer
HandlerMessage == <<"o", "n", "x", " ", "=", "s", "h", "o", "r", "t">>

MessageInputs == {ValidMessage, ShortMessage, HandlerMessage}

HoneypotInputs == {<<>>, <<" ">>, SpamUrl}

\* Values typed with whitespace around them
PaddedName == <<" ", "A", "l", " ">>

PaddedEmail == <<" ", "a", "@", "b", ".", "c">>

PaddedMessage == <<"\n">> \o ValidMessage \o <<" ", " ">>

PaddedInputs == {PaddedName, PaddedEmail, PaddedMessage}

\* sanitizeInput on each value that is entered, computed once
Sanitized ==
  [v \in NameInputs \cup EmailInputs \cup MessageInputs \cup PaddedInputs |->
     SanitizeInput(v)]

-----------------------------------------------------------------------------
\* Handlers

\* The user enters n, e and m in the three fields (their input listeners run
\* sanitizeInput), sets the checkbox to p and the honeypot to h.
FillForm(n, e, m, p, h) ==
  /\ values' = [name |-> Sanitized[n], email |-> Sanitized[e],
                message |-> Sanitized[m]]
  /\ privacy' = p
  /\ website' = h
  /\ event' = "input"
  /\ UNCHANGED <<now, submissions, sessionToken, tokenField, fieldUI, notice,
                 hideTimers, btn, inflight, phase, failure>>
  /\ UNCHANGED <<call, components, peer>>

\* blur listener of a field: validateField(field)
Blur(f) ==
  /\ fieldUI' = [fieldUI EXCEPT ![f] = ValidatedUI(f)]
  /\ event' = "blur"
  /\ UNCHANGED <<now, submissions, sessionToken, tokenField, values, privacy,
                 website, notice, hideTimers, btn, inflight, phase, failure>>
  /\ UNCHANGED <<call, components, peer>>

\* handleSubmit validating only up to the first invalid field
ValidateFieldsShortCircuit ==
  [f \in Fields |->
     IF \/ f = "name"
        \/ f = "email" /\ IsFieldValid("name")
        \/ f = "message" /\ IsFieldValid("name") /\ IsFieldValid("email")
     THEN ValidatedUI(f) ELSE fieldUI[f]]

\* The three validateField calls of handleSubmit, each of them made
ValidateFields == [f \in Fields |-> ValidatedUI(f)]

\* isFormValid of handleSubmit without the consent check
IsFormValidWithoutConsent == \A f \in Fields : IsFieldValid(f)

\* isFormValid of handleSubmit: the three results and the consent checkbox
IsFormValid == (\A f \in Fields : IsFieldValid(f)) /\ privacy

\* formData with the values as they stand in the fields
FormDataUntrimmed ==
  [name |-> values["name"], email |-> values["email"],
   message |-> values["message"], csrf_token |-> tokenField, timestamp |-> now]

\* formData of handleSubmit: the trimmed values, the value of the hidden
\* csrf_token field and Date.now()
FormData ==
  [name |-> Trim(values["name"]), email |-> Trim(values["email"]),
   message |-> Trim(values["message"]), csrf_token |-> tokenField,
   timestamp |-> now]

\* The loading state that leaves the submit button enabled
LoadingButtonEnabled == [disabled |-> FALSE, loading |-> TRUE, text |-> SendingText]

\* "Disable submit button and show loading state" of handleSubmit
LoadingButton == [disabled |-> TRUE, loading |-> TRUE, text |-> SendingText]

\* handleSubmit up to its await (or to its early return). The browser
\* delivers no submit event while the form's submit button is disabled.
HandleSubmit ==
  LET rateLimit == CheckRateLimit(submissions, now)
      validated == ValidateFields
      isFormValid == IsFormValid
      afterPrivacy == IF ~privacy THEN ShowMessage("danger", PrivacyMsg, 0)
                      ELSE notice
  IN
  /\ ~btn.disabled
  /\ event' = "submit"
  /\ IF ~rateLimit.allowed THEN
       /\ notice' = ShowMessage("danger", RateLimitMsg, rateLimit.minutes)
       /\ phase' = "Failed"
       /\ failure' = "RateLimit"
       /\ hideTimers' = ShowMessageTimers(hideTimers, "danger", now)
       /\ UNCHANGED <<fieldUI, btn, inflight>>
     ELSE IF Trim(website) # <<>> THEN
       /\ fieldUI' = validated
       /\ notice' = ShowMessage("danger", HoneypotMsg, 0)
       /\ phase' = "Blocked"
       /\ failure' = "None"
       /\ hideTimers' = ShowMessageTimers(hideTimers, "danger", now)
       /\ UNCHANGED <<btn, inflight>>
     ELSE IF ~isFormValid THEN
       /\ fieldUI' = validated
       /\ notice' = ShowMessage("danger", CorrectErrorsMsg, 0)
       /\ phase' = "Failed"
       /\ failure' = "Validation"
       /\ hideTimers' = ShowMessageTimers(hideTimers, "danger", now)
       /\ UNCHANGED <<btn, inflight>>
     ELSE
       /\ fieldUI' = validated
       /\ notice' = afterPrivacy
       /\ btn' = LoadingButton
       /\ inflight' = [sent |-> TRUE,
                       name |-> FormData.name,
                       email |-> FormData.email,
                       message |-> FormData.message,
                       csrf_token |-> FormData.csrf_token,
                       timestamp |-> FormData.timestamp,
                       originalText |-> btn.text]
       /\ phase' = "Submitting"
       /\ failure' = "None"
       /\ UNCHANGED hideTimers
  /\ UNCHANGED <<now, submissions, sessionToken, tokenField, values, privacy,
                 website>>
  /\ UNCHANGED <<call, components, peer>>

\* The finally block restoring the label and leaving the button disabled
RestoredButtonStillDisabled(originalText) ==
  [disabled |-> TRUE, loading |-> FALSE, text |-> originalText]

\* The finally block of handleSubmit: the button enabled, out of its loading
\* state, with the label saved before the call
RestoredButton(originalText) ==
  [disabled |-> FALSE, loading |-> FALSE, text |-> originalText]

\* handleSubmit after its await, the transport promise having resolved:
\* the rest of the try block, then the finally block.
SubmitResolved ==
  /\ inflight.sent
  /\ now >= inflight.timestamp + TransportDelay
  /\ submissions' = RecordSubmission(submissions, now)
  /\ notice' = ShowMessage("success", SuccessMsg, 0)
  /\ hideTimers' = ShowMessageTimers(hideTimers, "success", now)
  /\ values' = [f \in Fields |-> <<>>]
  /\ privacy' = FALSE
  /\ website' = <<>>
  /\ fieldUI' = [f \in Fields |-> [fieldUI[f] EXCEPT !.classes = {}]]
  /\ \E fresh \in Tokens :
       /\ sessionToken' = InitCSRFToken(sessionToken, fresh)
       /\ tokenField' =
            TokenFieldValue(tokenField, InitCSRFToken(sessionToken, fresh))
  /\ btn' = RestoredButton(inflight.originalText)
  /\ inflight' = NoPayload
  /\ phase' = "Succeeded"
  /\ failure' = "None"
  /\ event' = "resolve"
  /\ UNCHANGED now
  /\ UNCHANGED <<call, components, peer>>

\* The rejection path recording the attempt as a submission
SubmitRejectedRecording ==
  /\ inflight.sent
  /\ submissions' = RecordSubmission(submissions, now)
  /\ notice' = ShowMessage("danger", TransportErrMsg, 0)
  /\ btn' = [disabled |-> FALSE, loading |-> FALSE, text |-> inflight.originalText]
  /\ inflight' = NoPayload
  /\ phase' = "Failed"
  /\ failure' = "Transport"
  /\ event' = "reject"
  /\ UNCHANGED <<now, sessionToken, tokenField, values, privacy,
                 website, fieldUI, hideTimers>>
  /\ UNCHANGED <<call, components, peer>>

\* The rejection path without the finally block
SubmitRejectedNoFinally ==
  /\ inflight.sent
  /\ notice' = ShowMessage("danger", TransportErrMsg, 0)
  /\ inflight' = NoPayload
  /\ phase' = "Failed"
  /\ failure' = "Transport"
  /\ event' = "reject"
  /\ UNCHANGED <<now, submissions, sessionToken, tokenField, values, privacy,
                 website, fieldUI, hideTimers, btn>>
  /\ UNCHANGED <<call, components, peer>>

\* handleSubmit after its await, the transport promise having rejected:
\* the catch block, then the finally block.
SubmitRejected ==
  /\ inflight.sent
  /\ notice' = ShowMessage("danger", TransportErrMsg, 0)
  /\ hideTimers' = ShowMessageTimers(hideTimers, "danger", now)
  /\ btn' = RestoredButton(inflight.originalText)
  /\ inflight' = NoPayload
  /\ phase' = "Failed"
  /\ failure' = "Transport"
  /\ event' = "reject"
  /\ UNCHANGED <<now, submissions, sessionToken, tokenField, values, privacy,
                 website, fieldUI>>
  /\ UNCHANGED <<call, components, peer>>

\* The timeout callback of showMessage, due at d
HideNotice(d) ==
  /\ d \in hideTimers
  /\ now >= d
  /\ notice' = [notice EXCEPT !.shown = FALSE]
  /\ hideTimers' = hideTimers \ {d}
  /\ event' = "timeout"
  /\ UNCHANGED <<now, submissions, sessionToken, tokenField, values, privacy,
                 website, fieldUI, btn, inflight, phase, failure>>
  /\ UNCHANGED <<call, components, peer>>

-----------------------------------------------------------------------------
\* The clock

Times == {k * oneHour + o : k \in 0..MaxHours, o \in Offsets}

\* Time passes, to the next of the instants T; a due timeout runs before the
\* clock moves on.
TickIn(T) ==
  /\ \A d \in hideTimers : d > now
  /\ \E t \in T :
       /\ t > now
       /\ \A u \in T : u > now => t <= u
       /\ now' = t
  /\ event' = "tick"
  /\ UNCHANGED <<submissions, sessionToken, tokenField, values, privacy, website,
                 fieldUI, notice, hideTimers, btn, inflight, phase, failure>>
  /\ UNCHANGED <<call, components, peer>>

Tick == TickIn(Times)

-----------------------------------------------------------------------------
\* Inputs

\* The forms a visitor or a bot fills in: all fields valid and the consent
\* given, with the honeypot empty or filled.
FilledForms ==
  {[name |-> ValidName, email |-> ValidEmail, message |-> ValidMessage,
    privacy |-> TRUE, website |-> h] : h \in {<<>>, SpamUrl}}

\* The pipeline over the hours of the clock.
Next ==
  \/ \E v \in FilledForms :
       FillForm(v.name, v.email, v.message, v.privacy, v.website)
  \/ HandleSubmit
  \/ SubmitResolved
  \/ SubmitRejected
  \/ \E d \in hideTimers : HideNotice(d)
  \/ Tick

Spec == Init /\ [][Next]_vars

\* The pipeline with a transport whose every call eventually resolves or
\* rejects: the promise awaited by handleSubmit is settled.
SpecLive == Init /\ [][Next]_vars /\ WF_vars(SubmitResolved \/ SubmitRejected)

\* The pipeline with every kind of field content, over the first seconds.
FormTimes == {0, 1500, 6500}

NextForm ==
  \/ \E n \in NameInputs, e \in EmailInputs, m \in MessageInputs,
        p \in BOOLEAN, h \in HoneypotInputs : FillForm(n, e, m, p, h)
  \/ \E f \in Fields : Blur(f)
  \/ HandleSubmit
  \/ SubmitResolved
  \/ SubmitRejected
  \/ \E d \in hideTimers : HideNotice(d)
  \/ TickIn(FormTimes)

SpecForm == Init /\ [][NextForm]_vars

-----------------------------------------------------------------------------
\* The wall clock set back to one of the instants T: Date.now() is not
\* monotonic.
ClockSetBack(T) ==
  /\ \E t \in T : t < now /\ now' = t
  /\ event' = "clock"
  /\ UNCHANGED <<submissions, sessionToken, tokenField, values, privacy, website,
                 fieldUI, notice, hideTimers, btn, inflight, phase, failure>>
  /\ UNCHANGED <<call, components, peer>>

\* The pipeline under a clock that may be set back.
SkewTimes == {0, 1500, 3000, 4500, oneHour + 1500}

NextSkew ==
  \/ \E v \in FilledForms :
       FillForm(v.name, v.email, v.message, v.privacy, v.website)
  \/ HandleSubmit
  \/ SubmitResolved
  \/ SubmitRejected
  \/ \E d \in hideTimers : HideNotice(d)
  \/ TickIn(SkewTimes)
  \/ ClockSetBack(SkewTimes)

SpecSkew == Init /\ [][NextSkew]_vars

-----------------------------------------------------------------------------
\* A page load that finds the store left by earlier sessions: k timestamps
\* one hour apart, the newest at least an hour old.
ReloadStart == (StoreCap + 1) * oneHour

PriorStore(k) == [i \in 1..k |-> i * oneHour]

ReloadTimes == {ReloadStart + o : o \in Offsets}

InitReload ==
  /\ now = ReloadStart
  /\ \E k \in 0..StoreCap : submissions = PriorStore(k)
  /\ InitForm
  /\ call = NoCall
  /\ components = NoComponents
  /\ peer = NoPayload

NextReload ==
  \/ \E v \in FilledForms :
       FillForm(v.name, v.email, v.message, v.privacy, v.website)
  \/ HandleSubmit
  \/ SubmitResolved
  \/ SubmitRejected
  \/ \E d \in hideTimers : HideNotice(d)
  \/ TickIn(ReloadTimes \cup {ReloadStart + oneHour})

SpecReload == InitReload /\ [][NextReload]_vars

-----------------------------------------------------------------------------
\* A page load that finds a store over the cap, written by another writer of
\* localStorage: StoreCap + k timestamps one minute apart, all of them more
\* than an hour old.
MaxForeign == 2

ForeignStore(k) == [i \in 1..(StoreCap + k) |-> i * MsPerMinute]

InitForeign ==
  /\ now = ReloadStart
  /\ \E k \in 1..MaxForeign : submissions = ForeignStore(k)
  /\ InitForm
  /\ call = NoCall
  /\ components = NoComponents
  /\ peer = NoPayload

SpecForeign == InitForeign /\ [][NextReload]_vars

-----------------------------------------------------------------------------
\* The page loaded again in the same browsing session: the document is built
\* anew and initContactForm runs, finding the session token and the store of
\* submissions as they were left; what was pending in the old document (a
\* transport call, the notice timers) is gone with it.
Reload ==
  /\ \E fresh \in Tokens :
       /\ sessionToken' = InitCSRFToken(sessionToken, fresh)
       /\ tokenField' =
            TokenFieldValue(EmptyToken, InitCSRFToken(sessionToken, fresh))
  /\ values' = [f \in Fields |-> <<>>]
  /\ privacy' = FALSE
  /\ website' = <<>>
  /\ fieldUI' = [f \in Fields |-> EmptyFieldUI]
  /\ notice' = HiddenNotice
  /\ hideTimers' = {}
  /\ btn' = IdleButton
  /\ inflight' = NoPayload
  /\ phase' = "Idle"
  /\ failure' = "None"
  /\ event' = "reload"
  /\ UNCHANGED <<now, submissions>>
  /\ UNCHANGED <<call, components, peer>>

\* The page loaded in a browsing session whose storage holds no token (stored
\* is what getItem returns: null, or the empty string): as Reload, with
\* initCSRFToken finding nothing to reuse.
NewSession(stored) ==
  /\ \E fresh \in Tokens :
       /\ sessionToken' = InitCSRFToken(stored, fresh)
       /\ tokenField' =
            TokenFieldValue(EmptyToken, InitCSRFToken(stored, fresh))
  /\ values' = [f \in Fields |-> <<>>]
  /\ privacy' = FALSE
  /\ website' = <<>>
  /\ fieldUI' = [f \in Fields |-> EmptyFieldUI]
  /\ notice' = HiddenNotice
  /\ hideTimers' = {}
  /\ btn' = IdleButton
  /\ inflight' = NoPayload
  /\ phase' = "Idle"
  /\ failure' = "None"
  /\ event' = "session"
  /\ UNCHANGED <<now, submissions>>
  /\ UNCHANGED <<call, components, peer>>

\* The forms of the sessions: those of FilledForms and one typed with
\* whitespace around each value.
SessionForms ==
  FilledForms \cup
  {[name |-> PaddedName, email |-> PaddedEmail, message |-> PaddedMessage,
    privacy |-> TRUE, website |-> <<>>]}

\* The pipeline across page loads and browsing sessions.
NextSession ==
  \/ \E v \in SessionForms :
       FillForm(v.name, v.email, v.message, v.privacy, v.website)
  \/ HandleSubmit
  \/ SubmitResolved
  \/ SubmitRejected
  \/ \E d \in hideTimers : HideNotice(d)
  \/ TickIn(FormTimes)
  \/ Reload
  \/ \E stored \in {NoToken, EmptyToken} : NewSession(stored)

SpecSession == Init /\ [][NextSession]_vars

-----------------------------------------------------------------------------
\* The same page open in another tab: its form runs the same handleSubmit on
\* the same localStorage. Its visitor submits valid forms with the consent
\* given and the honeypot empty; of its state only the pending transport call
\* is followed.

\* handleSubmit of the other tab up to its await: the rate-limit check, then
\* the transport call. A denied attempt changes nothing outside that tab.
PeerSubmit ==
  /\ ~peer.sent
  /\ peer' = IF CheckRateLimit(submissions, now).allowed
               THEN [sent |-> TRUE, timestamp |-> now]
               ELSE peer
  /\ UNCHANGED <<now, submissions, sessionToken, tokenField, values, privacy,
                 website, fieldUI, notice, hideTimers, btn, inflight, phase,
                 failure, event, call, components>>

\* handleSubmit of the other tab after its await: recordSubmission
PeerResolved ==
  /\ peer.sent
  /\ now >= peer.timestamp + TransportDelay
  /\ submissions' = RecordSubmission(submissions, now)
  /\ peer' = NoPayload
  /\ UNCHANGED <<now, sessionToken, tokenField, values, privacy,
                 website, fieldUI, notice, hideTimers, btn, inflight, phase,
                 failure, event, call, components>>

\* The pipeline of two tabs over the first seconds.
TabTimes == {0, 1500, 3000, 8000}

NextTabs ==
  \/ \E v \in FilledForms :
       FillForm(v.name, v.email, v.message, v.privacy, v.website)
  \/ HandleSubmit
  \/ SubmitResolved
  \/ SubmitRejected
  \/ \E d \in hideTimers : HideNotice(d)
  \/ TickIn(TabTimes)
  \/ PeerSubmit
  \/ PeerResolved

SpecTabs == Init /\ [][NextTabs]_vars

-----------------------------------------------------------------------------
\* Components module: escapeHtml, which the content scripts and
\* simulateAPICall reach as window.escapeHtml

\* Longest text handed to escapeHtml
MaxTextLen == 3

\* The characters of the class [&<>"'\/]
HtmlSpecials == {"&", "<", ">", "\"", "'", "/"}

\* The map of escapeHtml leaving the slash as it is
EscapeMapKeepingSlash(char) ==
  CASE char = "&" -> <<"&", "a", "m", "p", ";">>
    [] char = "<" -> <<"&", "l", "t", ";">>
    [] char = ">" -> <<"&", "g", "t", ";">>
    [] char = "\"" -> <<"&", "q", "u", "o", "t", ";">>
    [] char = "'" -> <<"&", "#", "0", "3", "9", ";">>
    [] char = "/" -> <<"/">>

\* map of escapeHtml
EscapeMap(char) ==
  CASE char = "&" -> <<"&", "a", "m", "p", ";">>
    [] char = "<" -> <<"&", "l", "t", ";">>
    [] char = ">" -> <<"&", "g", "t", ";">>
    [] char = "\"" -> <<"&", "q", "u", "o", "t", ";">>
    [] char = "'" -> <<"&", "#", "0", "3", "9", ";">>
    [] char = "/" -> <<"&", "#", "x", "2", "F", ";">>

\* text.replace(/[&<>"'\/]/g, (char) => map[char])
RECURSIVE ReplaceSpecials(_)
ReplaceSpecials(s) ==
  IF s = <<>> THEN <<>>
  ELSE (IF Head(s) \in HtmlSpecials THEN EscapeMap(Head(s)) ELSE <<Head(s)>>)
       \o ReplaceSpecials(Tail(s))

\* A JavaScript string value with the characters chars
StringValue(chars) == [type |-> "string", chars |-> chars]

\* escapeHtml(text): the characters of the returned string
EscapeHtml(text) ==
  IF text.type # "string" THEN <<>> ELSE ReplaceSpecials(text.chars)

\* The arguments: every text of at most MaxTextLen characters over the six
\* special characters and a letter, and values that are not strings.
EscapeAlphabet == HtmlSpecials \cup {"a"}

EscapeInputs ==
  {StringValue(chars) :
     chars \in UNION {[1..k -> EscapeAlphabet] : k \in 0..MaxTextLen}}
  \cup {[type |-> "undefined"], [type |-> "number"], [type |-> "object"]}

\* A caller is about to call escapeHtml with one of the arguments.
InitEscape ==
  /\ now = 0
  /\ submissions = <<>>
  /\ InitForm
  /\ components = NoComponents
  /\ peer = NoPayload
  /\ \E text \in EscapeInputs :
       call = [fn |-> "escapeHtml", arg |-> text, returned |-> FALSE,
               result |-> <<>>]

\* escapeHtml runs and returns.
CallEscapeHtml ==
  /\ call.fn = "escapeHtml"
  /\ ~call.returned
  /\ call' = [call EXCEPT !.returned = TRUE, !.result = EscapeHtml(call.arg)]
  /\ UNCHANGED <<now, submissions, sessionToken, tokenField, values, privacy,
                 website, fieldUI, notice, hideTimers, btn, inflight, phase,
                 failure, event, components, peer>>

NextEscape == CallEscapeHtml

SpecEscape == InitEscape /\ [][NextEscape]_vars

-----------------------------------------------------------------------------
\* Components module: loadHeader, loadFooter, loadContent and initComponents.
\* Each loader is followed from its call to the settling of its promise; what
\* it does after its last await is synchronous, so it is one step.

\* What can happen to the fetch of a fragment: the text arrives, fetch
\* rejects, the response is not ok, or reading the body rejects.
FetchOutcomes == {"ok", "fetchRejects", "notOk", "bodyRejects"}

\* The steps of the try block of loadContent that can throw, in order;
\* siteContent is assigned between "fields" and "populateNavigation", and the
\* event is dispatched after "updateMetaTags".
ContentSteps ==
  <<"fetch", "status", "json", "object", "fields",
    "populateNavigation", "populateFooter", "updateMetaTags">>

\* Where loadContent fails, if it does
ContentOutcomes == {ContentSteps[i] : i \in DOMAIN ContentSteps} \cup {"ok"}

\* The step a precedes the step b (no step fails when the outcome is "ok").
FailsBefore(outcome, step) ==
  \E i, j \in DOMAIN ContentSteps :
    ContentSteps[i] = outcome /\ ContentSteps[j] = step /\ i < j

Fails(outcome) == outcome # "ok"

\* The parsed content.json and the hardcoded fallback content
FetchedContent == "content.json"

FallbackContent == "fallback"

\* loadHeader / loadFooter without the catch block
LoadFragmentWithoutCatch(task, outcome) ==
  IF outcome = "ok"
    THEN [status |-> "fulfilled", outcome |-> outcome,
          markup |-> IF task.markup = "absent" THEN "absent" ELSE "sanitized"]
    ELSE [status |-> "rejected", outcome |-> outcome, markup |-> task.markup]

\* loadHeader / loadFooter: the promise and the placeholder afterwards. The
\* placeholder element may be absent from the page.
LoadFragment(task, outcome) ==
  IF outcome = "ok"
    THEN [status |-> "fulfilled", outcome |-> outcome,
          markup |-> IF task.markup = "absent" THEN "absent" ELSE "sanitized"]
    ELSE [status |-> "fulfilled", outcome |-> outcome,
          markup |-> IF task.markup = "absent" THEN "absent" ELSE "fallback"]

\* The try block of loadContent, failing at the step outcome (or not)
ContentTryBlock(c, outcome) ==
  [siteContent |->
     IF Fails(outcome) /\ FailsBefore(outcome, "populateNavigation")
       THEN c.siteContent ELSE FetchedContent,
   notifications |->
     IF Fails(outcome) THEN c.notifications
     ELSE Append(c.notifications, FetchedContent)]

\* The catch block of loadContent dispatching nothing
ContentCatchBlockSilent(c) ==
  [siteContent |-> FallbackContent, notifications |-> c.notifications]

\* The catch block of loadContent
ContentCatchBlock(c) ==
  [siteContent |-> FallbackContent,
   notifications |-> Append(c.notifications, FallbackContent)]

\* loadContent: siteContent and the dispatched events afterwards
LoadContent(c, outcome) ==
  IF Fails(outcome) THEN ContentCatchBlock(ContentTryBlock(c, outcome))
  ELSE ContentTryBlock(c, outcome)

PendingFragment(markup) ==
  [status |-> "pending", outcome |-> "none", markup |-> markup]

\* initComponents has called the three loaders and awaits Promise.all; each
\* placeholder is in the page or not.
InitComponents ==
  /\ now = 0
  /\ submissions = <<>>
  /\ InitForm
  /\ call = NoCall
  /\ peer = NoPayload
  /\ \E h, f \in {"empty", "absent"} :
       components = [init |-> "awaiting",
                     header |-> PendingFragment(h),
                     footer |-> PendingFragment(f),
                     content |-> [status |-> "pending", outcome |-> "none"],
                     siteContent |-> "null",
                     notifications |-> <<>>]

\* loadHeader settles.
LoadHeader(outcome) ==
  /\ components.init = "awaiting"
  /\ components.header.status = "pending"
  /\ components' =
       [components EXCEPT !.header = LoadFragment(components.header, outcome)]
  /\ UNCHANGED <<now, submissions, sessionToken, tokenField, values, privacy,
                 website, fieldUI, notice, hideTimers, btn, inflight, phase,
                 failure, event, call, peer>>

\* loadFooter settles.
LoadFooter(outcome) ==
  /\ components.init = "awaiting"
  /\ components.footer.status = "pending"
  /\ components' =
       [components EXCEPT !.footer = LoadFragment(components.footer, outcome)]
  /\ UNCHANGED <<now, submissions, sessionToken, tokenField, values, privacy,
                 website, fieldUI, notice, hideTimers, btn, inflight, phase,
                 failure, event, call, peer>>

\* loadContent settles (its catch block throws nothing).
LoadContentSettles(outcome) ==
  LET after == LoadContent(components, outcome) IN
  /\ components.init = "awaiting"
  /\ components.content.status = "pending"
  /\ components' =
       [components EXCEPT !.content = [status |-> "fulfilled",
                                       outcome |-> outcome],
                          !.siteContent = after.siteContent,
                          !.notifications = after.notifications]
  /\ UNCHANGED <<now, submissions, sessionToken, tokenField, values, privacy,
                 website, fieldUI, notice, hideTimers, btn, inflight, phase,
                 failure, event, call, peer>>

ComponentTasks == {"header", "footer", "content"}

\* Promise.all of initComponents settles: fulfilled once the three promises
\* are, rejected as soon as one is; its rejection is caught and logged.
InitComponentsReturns ==
  /\ components.init = "awaiting"
  /\ \/ \A t \in ComponentTasks : components[t].status = "fulfilled"
     \/ \E t \in ComponentTasks : components[t].status = "rejected"
  /\ components' =
       [components EXCEPT !.init =
          IF \E t \in ComponentTasks : components[t].status = "rejected"
            THEN "errorLogged" ELSE "initialized"]
  /\ UNCHANGED <<now, submissions, sessionToken, tokenField, values, privacy,
                 website, fieldUI, notice, hideTimers, btn, inflight, phase,
                 failure, event, call, peer>>

NextComponents ==
  \/ \E outcome \in FetchOutcomes : LoadHeader(outcome)
  \/ \E outcome \in FetchOutcomes : LoadFooter(outcome)
  \/ \E outcome \in ContentOutcomes : LoadContentSettles(outcome)
  \/ InitComponentsReturns

\* Every fetch settles, and so does every promise awaited.
SpecComponents ==
  /\ InitComponents
  /\ [][NextComponents]_vars
  /\ WF_vars(\E outcome \in FetchOutcomes : LoadHeader(outcome))
  /\ WF_vars(\E outcome \in FetchOutcomes : LoadFooter(outcome))
  /\ WF_vars(\E outcome \in ContentOutcomes : LoadContentSettles(outcome))
  /\ WF_vars(InitComponentsReturns)

-----------------------------------------------------------------------------
\* validateField on the name field, as a function of the field's value

\* Longest name typed character by character
MaxNameLen == 3

\* The characters of the names: two letters, the hyphen, the apostrophe, the
\* space, the tab, the newline and a digit
NameAlphabet == {"a", "Z", "-", "'", " ", "\t", "\n", "1"}

\* A name of n letters
LettersOnly(n) == [i \in 1..n |-> "a"]

\* The values of the name field: every text of at most MaxNameLen characters,
\* and names of 99 to 101 letters, bare and with spaces around
NameValues ==
  UNION {[1..k -> NameAlphabet] : k \in 0..MaxNameLen}
  \cup {LettersOnly(n) : n \in {NameMaxLen - 1, NameMaxLen, NameMaxLen + 1}}
  \cup {<<" ">> \o LettersOnly(NameMaxLen) \o <<" ">>}

\* A caller is about to call validateField on the name field holding one of
\* the values.
InitValidate ==
  /\ now = 0
  /\ submissions = <<>>
  /\ InitForm
  /\ components = NoComponents
  /\ peer = NoPayload
  /\ \E v \in NameValues :
       call = [fn |-> "validateField", arg |-> v, returned |-> FALSE,
               result |-> FALSE]

\* validateField runs on the name field and returns isValid.
CallValidateField ==
  /\ call.fn = "validateField"
  /\ ~call.returned
  /\ call' = [call EXCEPT !.returned = TRUE,
                          !.result = ValidationRule("name", call.arg).isValid]
  /\ UNCHANGED <<now, submissions, sessionToken, tokenField, values, privacy,
                 website, fieldUI, notice, hideTimers, btn, inflight, phase,
                 failure, event, components, peer>>

NextValidate == CallValidateField

SpecValidate == InitValidate /\ [][NextValidate]_vars

-----------------------------------------------------------------------------
\* sanitizeInput, as a function of the field's value

\* Most pieces a value is made of
MaxPieces == 3

\* The pieces of the values: parts of the four patterns and a letter
SanitizerPieces ==
  {<<"j","a","v","a">>, <<"s","c","r","i","p","t",":">>, JavascriptScheme,
   <<"o">>, <<"n","x","=">>, <<"O","N","x"," ","=">>,
   <<"<","s","c","r","i","p","t",">">>, ScriptClose, <<"a">>}

RECURSIVE Joined(_)
Joined(pieces) ==
  IF pieces = <<>> THEN <<>> ELSE Head(pieces) \o Joined(Tail(pieces))

\* The values of the field: the pieces joined, at most MaxPieces of them
SanitizerValues ==
  {Joined(pieces) :
     pieces \in UNION {[1..k -> SanitizerPieces] : k \in 0..MaxPieces}}

\* An input event is about to run sanitizeInput on a field holding one of the
\* values.
InitSanitize ==
  /\ now = 0
  /\ submissions = <<>>
  /\ InitForm
  /\ components = NoComponents
  /\ peer = NoPayload
  /\ \E v \in SanitizerValues :
       call = [fn |-> "sanitizeInput", arg |-> v, returned |-> FALSE,
               result |-> <<>>]

\* sanitizeInput runs; result is the field's value afterwards.
CallSanitizeInput ==
  /\ call.fn = "sanitizeInput"
  /\ ~call.returned
  /\ call' = [call EXCEPT !.returned = TRUE,
                          !.result = SanitizeInput(call.arg)]
  /\ UNCHANGED <<now, submissions, sessionToken, tokenField, values, privacy,
                 website, fieldUI, notice, hideTimers, btn, inflight, phase,
                 failure, event, components, peer>>

NextSanitize == CallSanitizeInput

SpecSanitize == InitSanitize /\ [][NextSanitize]_vars

-----------------------------------------------------------------------------
\* Vocabulary of the properties

\* The last attempt was denied by the rate limiter.
RateLimited == phase = "Failed" /\ failure = "RateLimit"

\* The honeypot field is non-empty after trimming.
HoneypotFilled == Trim(website) # <<>>

\* The stored timestamps inside the trailing window (t - oneHour, t]
InTrailingWindow(subs, t) ==
  {i \in DOMAIN subs : t - oneHour < subs[i] /\ subs[i] <= t}

\* The stored timestamps later than t - oneHour, those later than t included
NotOlderThanWindow(subs, t) == {i \in DOMAIN subs : subs[i] > t - oneHour}

\* The stored timestamps inside the window [subs[i], subs[i] + oneHour)
InWindowFrom(subs, i) ==
  {j \in DOMAIN subs : subs[i] <= subs[j] /\ subs[j] < subs[i] + oneHour}

\* The transport is not invoked in this step and the button stays enabled.
NoTransportCall == inflight' = NoPayload /\ ~inflight.sent /\ ~btn'.disabled

-----------------------------------------------------------------------------
C2_AtMost3PerWindow ==
  \A i \in DOMAIN submissions : Cardinality(InWindowFrom(submissions, i)) <= 3

\* C2 witness: three stored timestamps share a window and a fourth submission
\* has been recorded after them.
C2_Witness ==
  /\ Len(submissions) >= 4
  /\ Cardinality(InWindowFrom(submissions, 1)) = 3
  /\ event = "resolve"

\* C3: a submission that succeeds leaves a session token (and hidden field
\* value) different from the token that was attached to it.
C3_TokenRotatedOnSuccess ==
  [][event' = "resolve" =>
       /\ sessionToken' # inflight.csrf_token
       /\ sessionToken' # sessionToken
       /\ tokenField' = sessionToken']_vars

\* C4: a submit with a non-empty honeypot reaches Blocked, invokes no
\* transport, leaves the store and the session token unchanged and never
\* disables the button.
C4_HoneypotBlockedWithoutSideEffect ==
  [][(event' = "submit" /\ HoneypotFilled) =>
       /\ phase' = "Blocked"
       /\ NoTransportCall
       /\ submissions' = submissions
       /\ sessionToken' = sessionToken
       /\ tokenField' = tokenField]_vars

\* C5: a submit with a non-empty honeypot changes no field's validity state or
\* inline error text and leaves neither the privacy notice nor the
\* "correct the errors" notice displayed.
C5_HoneypotSurfacesNoValidationError ==
  [][(event' = "submit" /\ HoneypotFilled) =>
       /\ fieldUI' = fieldUI
       /\ notice'.text \notin {PrivacyMsg, CorrectErrorsMsg}]_vars

\* C6: the honeypot is checked before the rate limiter: a submit with a
\* non-empty honeypot that the rate limiter would deny still ends Blocked, not
\* with the rate-limit denial and its retry-after message.
C6_HoneypotBeforeRateLimit ==
  [][(/\ event' = "submit"
      /\ HoneypotFilled
      /\ Cardinality(InTrailingWindow(submissions, now)) >= 3) =>
       /\ phase' = "Blocked"
       /\ ~RateLimited'
       /\ notice'.text # RateLimitMsg]_vars

\* C7: the store never holds more than 10 timestamps.
C7_StoreAtMost10 == Len(submissions) <= 10

\* C7 witness: a full store found at page load has taken two more
\* submissions, its two oldest entries having been evicted.
C7_Witness ==
  /\ Len(submissions) = 10
  /\ submissions[1] = 3 * oneHour
  /\ submissions[10] >= ReloadStart

\* C8: a submission that succeeds leaves the previous sequence with the new
\* timestamp appended, of length min(previous length + 1, 10); the other
\* entries keep values and order, and an entry dropped is the front one.
C8_AppendThenEvictOldest ==
  [][event' = "resolve" =>
       LET n == Len(submissions)
           m == Len(submissions')
       IN /\ m = Min2(n + 1, 10)
          /\ submissions'[m] = now
          /\ \A i \in 1..(m - 1) : submissions'[i] = submissions[i + (n + 1 - m)]]_vars

\* C8 witness: a success on a full store: the oldest entry is gone and the
\* new timestamp is last.
C8_Witness ==
  /\ event = "resolve"
  /\ phase = "Succeeded"
  /\ Len(submissions) = 10
  /\ submissions[1] = 2 * oneHour
  /\ submissions[10] = now

\* C9: the store changes only on the step from Submitting to Succeeded, by
\* exactly one appended timestamp (the time the transport resolved), and every
\* such step appends one; no other step of any attempt changes the store.
C9_RecordedExactlyOnSuccess ==
  [][/\ (submissions' # submissions =>
            /\ event' = "resolve"
            /\ phase = "Submitting"
            /\ phase' = "Succeeded"
            /\ inflight.sent
            /\ now >= inflight.timestamp)
     /\ (event' = "resolve" =>
            /\ phase = "Submitting"
            /\ phase' = "Succeeded"
            /\ \E k \in {0, 1} :
                 submissions' = SubSeq(Append(submissions, now), 1 + k,
                                       Len(submissions) + 1))]_vars

\* C9 witness: two submissions have succeeded and a third attempt ended on a
\* transport error: two timestamps are stored.
C9_Witness ==
  /\ event = "reject"
  /\ phase = "Failed"
  /\ failure = "Transport"
  /\ Len(submissions) = 2

\* C10: when the transport rejects, the attempt ends Failed with the generic
\* failure notice displayed, the store and the session token are unchanged
\* and the submit button is enabled again with its label.
C10_TransportErrorRecoverable ==
  [][event' = "reject" =>
       /\ phase = "Submitting"
       /\ phase' = "Failed"
       /\ failure' = "Transport"
       /\ notice' = [type |-> "danger", text |-> TransportErrMsg,
                     minutes |-> 0, shown |-> TRUE]
       /\ submissions' = submissions
       /\ sessionToken' = sessionToken
       /\ tokenField' = tokenField
       /\ btn' = [disabled |-> FALSE, loading |-> FALSE, text |-> ButtonLabel]
       /\ ~inflight'.sent]_vars

\* C10 witness: the first attempt ended on a transport error; the failure notice
\* is displayed, the store is empty and the button is enabled.
C10_Witness ==
  /\ event = "reject"
  /\ phase = "Failed"
  /\ failure = "Transport"
  /\ ~btn.disabled
  /\ submissions = <<>>
  /\ notice.text = TransportErrMsg

-----------------------------------------------------------------------------
\* The value v meets the rule of the field f: a name of 2 to 100 characters
\* made of letters, whitespace, apostrophes and hyphens, an address of the
\* shape local@domain.tld, a message of 10 to 2000 characters, all three
\* measured after trimming.
WellFormed(f, v) ==
  LET t == Trim(v) IN
  CASE f = "name" -> Len(t) >= 2 /\ Len(t) <= 100 /\ NameRegex(t)
    [] f = "email" -> EmailRegex(t)
    [] f = "message" -> Len(t) >= 10 /\ Len(t) <= 2000

\* Fewer than 3 stored timestamps lie in the trailing window at the clock.
WithinRateLimit == Cardinality(InTrailingWindow(submissions, now)) < 3

\* C11: a submit with an empty honeypot and the rate limit not exceeded, of a
\* form in which a field is not well formed or the consent is not given, ends
\* Failed with the notice 'Please correct the errors in the form.' displayed;
\* the transport is not invoked, the button is not disabled, and the store and
\* the token are unchanged.
C11_InvalidFormFailsBeforeTransport ==
  [][(/\ event' = "submit"
      /\ ~HoneypotFilled
      /\ WithinRateLimit
      /\ (~privacy \/ \E f \in Fields : ~WellFormed(f, values[f])))
     => /\ phase' = "Failed"
        /\ failure' = "Validation"
        /\ notice' = [type |-> "danger", text |-> CorrectErrorsMsg,
                      minutes |-> 0, shown |-> TRUE]
        /\ NoTransportCall
        /\ btn' = btn
        /\ submissions' = submissions
        /\ sessionToken' = sessionToken
        /\ tokenField' = tokenField]_vars

\* C11 witness: a form with three well-formed fields and the consent not given
\* was submitted; the attempt failed on validation with the generic notice
\* displayed and the button enabled.
C11_Witness ==
  /\ event = "submit"
  /\ phase = "Failed"
  /\ failure = "Validation"
  /\ ~privacy
  /\ \A f \in Fields : WellFormed(f, values[f])
  /\ notice.text = CorrectErrorsMsg
  /\ notice.shown
  /\ ~btn.disabled
  /\ ~inflight.sent

\* C12: a submit that passes the rate-limit check validates each of the three
\* fields: after it every field that is not well formed is marked invalid with
\* its error text shown, and every well-formed field is marked valid with its
\* error text hidden.
C12_AllFieldsValidated ==
  [][(event' = "submit" /\ ~RateLimited')
     => \A f \in Fields :
          IF WellFormed(f, values[f])
          THEN /\ fieldUI'[f].classes = {"is-valid"}
               /\ ~fieldUI'[f].feedbackShown
          ELSE /\ fieldUI'[f].classes = {"is-invalid"}
               /\ fieldUI'[f].feedbackShown
               /\ fieldUI'[f].feedbackText =
                    ValidationRule(f, values[f]).errorMessage]_vars

\* C12 witness: a form whose name and message are both too short and whose
\* address is well formed was submitted; both fields are marked invalid and the
\* address is marked valid.
C12_Witness ==
  /\ event = "submit"
  /\ failure = "Validation"
  /\ ~WellFormed("name", values["name"])
  /\ ~WellFormed("message", values["message"])
  /\ fieldUI["name"].classes = {"is-invalid"}
  /\ fieldUI["message"].classes = {"is-invalid"}
  /\ fieldUI["email"].classes = {"is-valid"}
  /\ fieldUI["name"].feedbackText = NameErrLength
  /\ fieldUI["message"].feedbackText = MessageErr

\* C13: no two submissions of the form are in flight together: while a
\* transport call is pending the submit button is disabled with its loading
\* label; no submit event is handled and no other transport call is issued
\* until the pending call resolves or rejects.
C13_OneSubmissionInFlight ==
  /\ [](inflight.sent => btn = LoadingButton)
  /\ [][inflight.sent =>
          /\ event' # "submit"
          /\ (event' \notin {"resolve", "reject"} =>
                inflight' = inflight /\ btn'.disabled)
          /\ (event' \in {"resolve", "reject"} => ~inflight'.sent)]_vars

\* C13 witness: the response of a transport call is due and still pending, and
\* the visitor has filled the form again meanwhile; the button is disabled.
C13_Witness ==
  /\ inflight.sent
  /\ now >= inflight.timestamp + TransportDelay
  /\ event = "input"
  /\ \A f \in Fields : WellFormed(f, values[f])
  /\ privacy
  /\ btn.disabled

\* C14: every attempt returns the form to its interactive state: a form with
\* no transport call pending has its button enabled with the original label,
\* and, the transport call eventually resolving or rejecting, a disabled
\* button is eventually enabled again with the original label and no call
\* pending, so that the next submit event is handled from the start.
C14_EventuallyInteractive ==
  /\ [](~inflight.sent => btn = IdleButton)
  /\ (btn.disabled ~> (btn = IdleButton /\ ~inflight.sent))

\* C14 witness: after an attempt that went through the transport and was
\* recorded, the next submit event has been handled from the start and has
\* reached the transport.
C14_Witness ==
  /\ event = "submit"
  /\ phase = "Submitting"
  /\ Len(submissions) >= 1
  /\ inflight.originalText = ButtonLabel

\* C15: a submit denied by the rate limiter leaves the store, the token, the
\* fields' values and validity marks, the consent, the honeypot and the button
\* as they were and invokes no transport; each submit is decided against the
\* clock at that moment, so that an attempt made after a denial is admitted
\* once fewer than 3 stored timestamps are less than 3,600,000 ms old.
C15_DenialLeavesStateAndIsReevaluated ==
  [][event' = "submit" =>
       /\ (RateLimited' =>
             /\ UNCHANGED <<submissions, sessionToken, tokenField, values,
                            privacy, website, fieldUI, btn, inflight>>
             /\ ~btn'.disabled
             /\ ~inflight'.sent)
       /\ (RateLimited' <=> ~WithinRateLimit)]_vars

\* C15 witness: an attempt was denied while the oldest of 3 stored timestamps
\* was less than an hour old (its notice is still displayed); the attempt made
\* when that timestamp is exactly 3,600,000 ms old has reached the transport.
C15_Witness ==
  /\ event = "submit"
  /\ phase = "Submitting"
  /\ Len(submissions) = 3
  /\ now = submissions[1] + oneHour
  /\ notice.text = RateLimitMsg
  /\ notice.shown

\* The delay until the earliest of the stored timestamps counted at the clock
\* (those later than now - 3,600,000) is 3,600,000 ms old.
RetryAfter ==
  LET counted == {submissions[i] : i \in NotOlderThanWindow(submissions, now)}
      earliest == CHOOSE ts \in counted : \A u \in counted : ts <= u
  IN earliest + oneHour - now

\* With submissions 1000, 2000 and 3000 ms before the clock the attempt is
\* denied and the displayed value is 60 minutes.
ThreeJustRecorded ==
  CheckRateLimit(<<now - 3000, now - 2000, now - 1000>>, now)
    = [allowed |-> FALSE, minutes |-> 60]

C17_TokenGetOrCreate ==
  /\ [](sessionToken \in Tokens /\ sessionToken \notin {NoToken, EmptyToken})
  /\ [][/\ (event' = "session" =>
              sessionToken' \in Tokens /\ tokenField' = sessionToken')
        /\ (event' \in {"reload", "resolve"} =>
              sessionToken' = sessionToken /\ tokenField' = sessionToken)
        /\ (event' \notin {"session", "reload", "resolve"} =>
              sessionToken' = sessionToken)]_vars

\* C17 witness: the page has been loaded again in the session of a successful
\* submission, with the token that was in the session's storage.
C17_Witness ==
  /\ event = "reload"
  /\ Len(submissions) >= 1
  /\ sessionToken \in Tokens
  /\ tokenField = sessionToken

\* t is v without the whitespace at its two ends.
IsTrimOf(t, v) ==
  /\ t = <<>> \/ (~IsSpace(t[1]) /\ ~IsSpace(t[Len(t)]))
  /\ \E a \in 0..Len(v) :
       /\ a + Len(t) <= Len(v)
       /\ SubSeq(v, a + 1, a + Len(t)) = t
       /\ \A k \in 1..Len(v) : (k <= a \/ k > a + Len(t)) => IsSpace(v[k])

\* C18: the payload handed to the transport carries the name, the address and
\* the message of the fields without the whitespace at their ends, and a token
\* equal to the session token persisted at that moment, whatever attempts,
\* successes and page loads came before.
C18_PayloadTrimmedWithSessionToken ==
  [][(event' = "submit" /\ inflight'.sent) =>
       /\ IsTrimOf(inflight'.name, values["name"])
       /\ IsTrimOf(inflight'.email, values["email"])
       /\ IsTrimOf(inflight'.message, values["message"])
       /\ inflight'.csrf_token = sessionToken
       /\ inflight'.csrf_token \in Tokens]_vars

\* C18 witness: after a recorded submission reset the form, a form typed with
\* whitespace around its values has been handed to the transport, trimmed and
\* with the session token.
C18_Witness ==
  /\ event = "submit"
  /\ inflight.sent
  /\ Len(submissions) >= 1
  /\ values["name"] = PaddedName
  /\ values["message"] = PaddedMessage
  /\ inflight.name = ValidName
  /\ inflight.message = ValidMessage
  /\ inflight.csrf_token = sessionToken

\* C19: the success notice shown when a submission resolves has its hiding
\* scheduled 5,000 ms after it is shown, stays pending until then and is
\* hidden when the timeout runs; no other step, the showing of a danger
\* notice included, schedules a hiding.
C19_SuccessNoticeAutoHidden ==
  /\ []((notice.shown /\ notice.type = "success") =>
          \E d \in hideTimers : now <= d /\ d <= now + 5000)
  /\ [][/\ (event' = "resolve" =>
              /\ notice'.type = "success"
              /\ notice'.shown
              /\ hideTimers' = hideTimers \cup {now + 5000})
        /\ (event' # "resolve" => hideTimers' \subseteq hideTimers)
        /\ ((event' \in {"submit", "reject"} /\ notice' # notice) =>
              /\ notice'.type = "danger"
              /\ notice'.shown
              /\ hideTimers' = hideTimers)
        /\ (event' = "timeout" =>
              /\ ~notice'.shown
              /\ \E d \in hideTimers : d <= now /\ hideTimers' = hideTimers \ {d})
       ]_vars

\* C19 witness: the success notice of a submission recorded 5,000 ms ago has
\* just been hidden by its timeout.
C19_Witness ==
  /\ event = "timeout"
  /\ notice.type = "success"
  /\ ~notice.shown
  /\ \E i \in DOMAIN submissions : submissions[i] + 5000 = now
  /\ hideTimers = {}

\* The six entities escapeHtml is documented to produce
Entities ==
  {<<"&", "a", "m", "p", ";">>, <<"&", "l", "t", ";">>, <<"&", "g", "t", ";">>,
   <<"&", "q", "u", "o", "t", ";">>, <<"&", "#", "0", "3", "9", ";">>,
   <<"&", "#", "x", "2", "F", ";">>}

\* The entity e stands at position i of s.
EntityAt(s, i, e) ==
  i + Len(e) - 1 <= Len(s) /\ SubSeq(s, i, i + Len(e) - 1) = e

\* escapeHtml has returned.
Escaped == call.fn = "escapeHtml" /\ call.returned

\* C20, as stated: the output of escapeHtml for a string contains none of the
\* six characters & < > " ' /, and the output for a value that is not a string
\* is the empty string.
C20_OutputHasNoneOfTheSixCharacters ==
  Escaped =>
    IF call.arg.type = "string"
    THEN \A i \in 1..Len(call.result) : call.result[i] \notin HtmlSpecials
    ELSE call.result = <<>>

\* C20, amended: the output of escapeHtml for a string contains none of the
\* five characters < > " ' /, and an & only as the first character of one of
\* the six entities; the output for a value that is not a string is the empty
\* string.
C20_OutputHasSpecialsOnlyAsEntities ==
  Escaped =>
    IF call.arg.type = "string"
    THEN \A i \in 1..Len(call.result) :
           /\ call.result[i] \notin {"<", ">", "\"", "'", "/"}
           /\ call.result[i] = "&" =>
                \E e \in Entities : EntityAt(call.result, i, e)
    ELSE call.result = <<>>

\* C20 witness: escapeHtml has returned for the text &</ ; the output is
\* &amp;&lt;&#x2F; and holds the character & three times.
C20_Witness ==
  /\ Escaped
  /\ call.arg = StringValue(<<"&", "<", "/">>)
  /\ call.result = <<"&", "a", "m", "p", ";", "&", "l", "t", ";",
                     "&", "#", "x", "2", "F", ";">>

-----------------------------------------------------------------------------
\* v without the spaces, tabs and line breaks at its two ends: the longest
\* stretch of v that neither starts nor ends with one of them
TrimmedOf(v) ==
  LET inner == {k \in 1..Len(v) : v[k] \notin {" ", "\t", "\n", "\r"}} IN
  IF inner = {} THEN <<>>
  ELSE SubSeq(v, CHOOSE a \in inner : \A k \in inner : a <= k,
                 CHOOSE b \in inner : \A k \in inner : b >= k)

\* C21: validateField on the name field returns valid exactly when the trimmed
\* value has 2 to 100 characters, each of them a letter, a space, a hyphen or
\* an apostrophe; a tab or a newline inside the value makes it invalid.
C21_NameValidIffLettersSpacesHyphensApostrophes ==
  (call.fn = "validateField" /\ call.returned) =>
    (call.result <=>
       LET t == TrimmedOf(call.arg) IN
       /\ Len(t) >= 2
       /\ Len(t) <= 100
       /\ \A i \in 1..Len(t) : t[i] \in Letters \cup {" ", "-", "'"})

\* C22: a call of loadContent dispatches no contentLoaded event before it
\* settles and exactly one by the time it has: the event carries the fetched
\* content, which is then the stored site content, when no step failed, and
\* the fallback content, then the stored site content, when a step failed;
\* the stored site content is not null afterwards.
C22_ExactlyOneContentLoaded ==
  components.init # "none" =>
    IF components.content.status = "pending"
    THEN components.notifications = <<>>
    ELSE /\ Len(components.notifications) = 1
         /\ components.siteContent # "null"
         /\ components.notifications[1] = components.siteContent
         /\ components.siteContent =
              IF components.content.outcome = "ok" THEN FetchedContent
              ELSE FallbackContent

\* C22 witness: loadContent failed while populating the navigation, after it
\* had stored the fetched content; one event was dispatched, with the fallback
\* content.
C22_Witness ==
  /\ components.init # "none"
  /\ components.content.status = "fulfilled"
  /\ components.content.outcome = "populateNavigation"
  /\ components.notifications = <<FallbackContent>>
  /\ components.siteContent = FallbackContent

\* C30: whatever the three fetches do and in whatever order the loaders
\* settle, no loader's promise is rejected, so initComponents has no error to
\* handle; a header or footer whose fetch failed has the fallback markup in
\* its placeholder (when the page has the placeholder); and, every fetch
\* settling, the three loaders all settle, one contentLoaded event is
\* dispatched and initComponents returns.
C30_LoadersIndependent ==
  /\ [](components.init # "none" =>
          /\ \A t \in ComponentTasks : components[t].status # "rejected"
          /\ components.init # "errorLogged"
          /\ \A t \in {"header", "footer"} :
               (components[t].status = "fulfilled" /\ components[t].markup # "absent")
                 => components[t].markup =
                      IF components[t].outcome = "ok" THEN "sanitized"
                      ELSE "fallback")
  /\ <>(/\ components.init = "initialized"
        /\ \A t \in ComponentTasks : components[t].status = "fulfilled"
        /\ Len(components.notifications) = 1)

\* C30 witness: the header fetch was rejected, the footer arrived and the
\* content was not valid JSON; initComponents has returned with the header
\* fallback, the fetched footer and one event in place.
C30_Witness ==
  /\ components.init = "initialized"
  /\ components.header.outcome = "fetchRejects"
  /\ components.header.markup = "fallback"
  /\ components.footer.outcome = "ok"
  /\ components.footer.markup = "sanitized"
  /\ components.content.outcome = "json"
  /\ components.notifications = <<FallbackContent>>

\* C23: under the non-decreasing clock, a store built from the empty store by
\* recorded submissions and evictions is in ascending (non-decreasing) order.
C23_StoreAscending ==
  \A i, j \in DOMAIN submissions : i < j => submissions[i] <= submissions[j]

\* C23 witness: three submissions were recorded on a full store one after
\* the other, each evicting the oldest entry; the seven old entries left are
\* followed by the three new ones in the order of their recording.
C23_Witness ==
  /\ event = "resolve"
  /\ Len(submissions) = StoreCap
  /\ submissions[1] = 4 * oneHour
  /\ submissions[8] >= ReloadStart
  /\ submissions[8] < submissions[9]
  /\ submissions[9] < submissions[10]
  /\ submissions[10] = now

\* C24: a recorded submission leaves at most 10 timestamps whatever the store
\* held: the new timestamp is appended and, when that makes more than 10,
\* entries are dropped from the front until exactly 10 are left.
C24_CapRestoredForAnyStore ==
  [][event' = "resolve" =>
       LET pushed == Append(submissions, now)
           m == Len(submissions')
       IN /\ m = Min2(Len(pushed), 10)
          /\ submissions' = SubSeq(pushed, Len(pushed) - m + 1, Len(pushed))]_vars

\* C25: the value sanitizeInput leaves in a field holds no 'javascript:' in
\* any case, no single-line script or iframe block and no on<word>= handler,
\* and a second run of sanitizeInput leaves it as it is.
C25_SanitizedValueHasNoPattern ==
  (call.fn = "sanitizeInput" /\ call.returned) =>
    /\ \A i \in 1..Len(call.result) :
         /\ JavascriptEnd(call.result, i) = 0
         /\ ScriptEnd(call.result, i) = 0
         /\ IframeEnd(call.result, i) = 0
         /\ HandlerEnd(call.result, i) = 0
    /\ SanitizeInput(call.result) = call.result

\* C26: with two tabs on one store, whatever the interleaving of their
\* attempts, the store holds at most 3 timestamps inside one window of
\* 3,600,000 ms: the timestamp three places after any timestamp is at least
\* 3,600,000 ms later.
C26_AtMost3PerWindowAcrossTabs ==
  \A i \in DOMAIN submissions :
    (i + 3) \in DOMAIN submissions =>
      submissions[i + 3] >= submissions[i] + oneHour

\* C27: a displayed danger notice stays displayed: no step hides it, and it
\* changes only by a step that shows a notice (a submit, or the resolution or
\* rejection of a transport call); the time-out of an earlier success notice
\* does not hide it.
C27_DangerNoticeStaysDisplayed ==
  [][(notice.shown /\ notice.type = "danger") =>
       /\ notice'.shown
       /\ (notice' # notice => event' \in {"submit", "resolve", "reject"})]_vars

\* C28: whenever no submission is in flight, the hidden csrf_token field holds
\* the token persisted in the session store, which is a generated token,
\* whatever attempts, successes (with their form reset) and page loads came
\* before.
C28_HiddenFieldEqualsSessionToken ==
  ~inflight.sent => (tokenField = sessionToken /\ tokenField \in Tokens)

\* C28 witness: a second submission has just succeeded; the form is reset and
\* idle, and the hidden field holds the session token.
C28_Witness ==
  /\ event = "resolve"
  /\ ~inflight.sent
  /\ \A f \in Fields : values[f] = <<>>
  /\ Len(submissions) >= 2
  /\ tokenField = sessionToken
  /\ sessionToken \in Tokens

\* The mark validateField gives the field f for the value it holds
MarkOf(f) == IF IsFieldValid(f) THEN "is-valid" ELSE "is-invalid"

\* C29: no field is ever marked both valid and invalid; a validateField call
\* (the blur of a field, each field at a submit that passes the rate-limit
\* check) leaves the field with exactly the mark of the returned result,
\* whatever mark it carried; and right after a successful submission no field
\* carries a mark.
C29_ValidityMarksWellFormed ==
  /\ [](\A f \in Fields : fieldUI[f].classes # {"is-valid", "is-invalid"})
  /\ [][/\ (event' = "blur" =>
              \E f \in Fields :
                /\ fieldUI'[f].classes = {MarkOf(f)}
                /\ \A g \in Fields \ {f} : fieldUI'[g] = fieldUI[g])
        /\ ((event' = "submit" /\ ~RateLimited') =>
              \A f \in Fields : fieldUI'[f].classes = {MarkOf(f)})
        /\ (event' = "resolve" =>
              \A f \in Fields : fieldUI'[f].classes = {})]_vars

\* C29 witness: the name field, marked invalid for its length before, has
\* been validated again at its blur with a well-formed value and carries the
\* valid mark only, next to a message field marked invalid.
C29_Witness ==
  /\ event = "blur"
  /\ fieldUI["name"].classes = {"is-valid"}
  /\ fieldUI["name"].feedbackText = NameErrLength
  /\ ~fieldUI["name"].feedbackShown
  /\ fieldUI["message"].classes = {"is-invalid"}

====
